---- MODULE Spec2Model ----
(***************************************************************************)
(* A model of weaktree's WeakTreeNode (src/src/weaktree/node.py).          *)
(*                                                                         *)
(* Node objects live in a pool of identities 1..MaxNodes.  A node holds    *)
(* its children strongly (the set _branches), its parent weakly (_trunk)   *)
(* and its value weakly (_data, a weak reference with the callback         *)
(* _remove).  Objects are destroyed by reference counting: a node exists   *)
(* as long as the application holds a handle to it, a running frame has it *)
(* in a local variable, or it is a member of the _branches of a node that  *)
(* exists.                                                                 *)
(*                                                                         *)
(* The trunk setter, the constructor and the expiry hook are modelled      *)
(* statement by statement (pc is the position in the running code), so     *)
(* that their intermediate states are states of the model.                 *)
(***************************************************************************)
EXTENDS Integers, Sequences, FiniteSets

\* ---------------------------------------------------------------- bounds
\* At most MaxNodes node objects are ever constructed, the application calls
\* the trunk setter at most MaxRelinks times, and at any time at most
\* MaxExplicit nodes were given a cleanup_mode other than the default and at
\* most MaxSharers a value that another node wraps already.  Every node is
\* constructed with a callback, which counts its runs.
MaxNodes == 3
MaxRelinks == 1
MaxExplicit == 2
MaxSharers == 1

Nodes == 1..MaxNodes

\* A value is named by the first node constructed on it.
Vals == Nodes

\* None: Python's None.  DeadRef: a weak reference whose referent is gone.
None == 0
DeadRef == -1

\* class CleanupMode
DEFAULT == "DEFAULT"
PRUNE == "PRUNE"
REPARENT == "REPARENT"
NO_CLEANUP == "NO_CLEANUP"
CleanupMode == {DEFAULT, PRUNE, REPARENT, NO_CLEANUP}

VARIABLES
    created,    \* how many node objects have been constructed
    alive,      \* the node objects that exist
    held,       \* the nodes the application holds a strong handle to
    trunkRef,   \* node -> _trunk: None, a node, or DeadRef
    branches,   \* node -> _branches
    mode,       \* node -> _cleanup_mode
    cbRuns,     \* node -> how many times its callback has run
    dataRef,    \* node -> _data: the value it refers to, None once cleared
    relinks,    \* how many times the application has called the trunk setter
    hookq,      \* the _remove callbacks still to run for the expiry under way
    pc,         \* the position in the running operation
    fr,         \* the local variables of the running frames
    pre,        \* the operation under way and the state it started from
    it          \* the traversal (TreeIterable generator) under way

vars == <<created, alive, held, trunkRef, branches, mode, cbRuns, dataRef, relinks, hookq, pc, fr, pre, it>>

\* ------------------------------------------------------------- helpers
Range(s) == {s[i] : i \in 1..Len(s)}

\* The nodes reachable from the set S through the _branches B.
RECURSIVE Closure(_, _)
Closure(B, S) ==
    LET S2 == S \cup UNION {B[x] : x \in S}
    IN  IF S2 = S THEN S ELSE Closure(B, S2)

\* The strict descendants of n.
Descendants(B, n) == Closure(B, B[n])

NoFrame == [op |-> "none", self |-> None, arg |-> None, sub |-> None,
            copy |-> {}, rest |-> {}, cm |-> DEFAULT]

NoPre == [op |-> "none", node |-> None, arg |-> None, cm |-> DEFAULT,
          data |-> None, meth |-> "none",
          alive |-> {}, held |-> {}, trunk |-> [n \in Nodes |-> None],
          branches |-> [n \in Nodes |-> {}], mode |-> [n \in Nodes |-> DEFAULT]]

\* No traversal is under way.
NoIt == [kind |-> "none", start |-> None, tree |-> <<>>,
         pending |-> <<>>, out |-> <<>>]

\* ------------------------------------------------------------ the node
\* A weak reference called: its referent, or None once the referent is gone.
Deref(r) == IF r \in alive THEN r ELSE None

\* WeakTreeNode.trunk (the property).
Trunk(n) == IF trunkRef[n] = None THEN None ELSE Deref(trunkRef[n])

\* WeakTreeNode.branches (the property).
Branches(n) == branches[n]

\* WeakTreeNode.data: the value, or None once it has expired.
Data(n) == dataRef[n]

\* The nodes of S, the one constructed last first.
RECURSIVE LatestFirst(_)
LatestFirst(S) ==
    IF S = {} THEN <<>>
    ELSE LET x == CHOOSE y \in S : \A z \in S : z <= y
         IN  <<x>> \o LatestFirst(S \ {x})

\* The weak references to value v that carry a callback (_remove), in the
\* order the interpreter calls them: the most recently registered first.
Refs(v) == LatestFirst({n \in alive : dataRef[n] = v})

\* _get_cleanup_method.  Python's recursion is bounded by the interpreter's
\* recursion limit; on a cyclic trunk chain it raises RecursionError.
RECURSIVE GetCleanupMethodFuel(_, _, _)
GetCleanupMethodFuel(n, m, fuel) ==
    CASE m = PRUNE      -> "_prune"
      [] m = REPARENT   -> "_reparent"
      [] m = NO_CLEANUP -> "_idle"
      [] OTHER ->
            LET trunk == Trunk(n)
            IN  IF trunk = None THEN "_prune"
                ELSE IF fuel = 0 THEN "RecursionError"
                ELSE GetCleanupMethodFuel(trunk, mode[trunk], fuel - 1)

\* A resolution that can recurse no further than the node itself.
GetCleanupMethodShallow(n, m) == GetCleanupMethodFuel(n, m, 0)

\* A resolution that does not consult the trunk: a DEFAULT node prunes.
GetCleanupMethodOwnOnly(n, m) ==
    CASE m = REPARENT   -> "_reparent"
      [] m = NO_CLEANUP -> "_idle"
      [] OTHER          -> "_prune"

GetCleanupMethod(n, m) == GetCleanupMethodFuel(n, m, MaxNodes)

\* A hook that never calls the callback.
CallbackNever(n) == FALSE

\* `if callback:` in _remove: whether node n was constructed with a callback.
CallbackGiven(n) == n \in Nodes

\* The nodes met walking the trunk links from n, n included.
RECURSIVE TrunkWalk(_, _)
TrunkWalk(n, seen) ==
    IF n = None \/ n \in seen THEN seen
    ELSE TrunkWalk(Trunk(n), seen \cup {n})

TrunkChain(n) == TrunkWalk(n, {})

\* ------------------------------------------------- reference counting
\* The objects a running frame keeps alive through its local variables.
FrameRoots(f) == ({f.self, f.arg, f.sub} \cap Nodes) \cup f.copy

\* The state after the statement that leaves _branches B, _trunk T, modes M,
\* weak value references RF, handles H, frame F and hook queue Q: every node
\* no strong reference reaches is destroyed, with its _branches (releasing
\* its children) and its weak references.
Settle(B, T, M, RF, H, F, Q) ==
    LET A == Closure(B, H \cup FrameRoots(F))
    IN  /\ alive' = A
        /\ held' = H
        /\ branches' = [n \in Nodes |-> IF n \in A THEN B[n] ELSE {}]
        /\ trunkRef' = [n \in Nodes |->
                          IF n \notin A THEN None
                          ELSE IF T[n] \in Nodes /\ T[n] \notin A THEN DeadRef
                          ELSE T[n]]
        /\ mode' = [n \in Nodes |-> IF n \in A THEN M[n] ELSE DEFAULT]
        /\ dataRef' = [n \in Nodes |-> IF n \in A THEN RF[n] ELSE None]
        /\ fr' = F
        /\ hookq' = Q

\* The callbacks of the nodes that are gone and have no hook pending are gone,
\* and their counts with them.
KeepCallbacks(R, A, Q) ==
    cbRuns' = [n \in Nodes |-> IF n \in A \cup Range(Q) THEN R[n] ELSE 0]

\* The operation that starts (op on node n with trunk argument q, cleanup
\* mode m and value v) and the state it starts from.
Snapshot(op, n, q, m, v) ==
    [op |-> op, node |-> n, arg |-> q, cm |-> m, data |-> v, meth |-> "none",
     alive |-> alive, held |-> held,
     trunk |-> [x \in Nodes |-> Trunk(x)],
     branches |-> branches, mode |-> mode]

\* ---------------------------------------------------------------- Init
Init ==
    /\ created = 0
    /\ alive = {}
    /\ held = {}
    /\ trunkRef = [n \in Nodes |-> None]
    /\ branches = [n \in Nodes |-> {}]
    /\ mode = [n \in Nodes |-> DEFAULT]
    /\ cbRuns = [n \in Nodes |-> 0]
    /\ dataRef = [n \in Nodes |-> None]
    /\ relinks = 0
    /\ hookq = <<>>
    /\ pc = "idle"
    /\ fr = NoFrame
    /\ pre = NoPre
    /\ it = NoIt

\* ------------------------------------------------ the application's steps
\* The application takes a handle to a node it can reach.
Acquire(n) ==
    /\ pc = "idle"
    /\ n \in alive \ held
    /\ held' = held \cup {n}
    /\ UNCHANGED <<it, created, relinks, alive, trunkRef, branches, mode, cbRuns, dataRef, hookq, pc, fr, pre>>

\* The application releases its handle to a node.
Drop(n) ==
    /\ pc = "idle"
    /\ n \in held
    /\ Settle(branches, trunkRef, mode, dataRef, held \ {n}, fr, hookq)
    /\ KeepCallbacks(cbRuns, alive', hookq)
    /\ UNCHANGED <<it, created, relinks, pc, pre>>

\* The identity of the next node object: node objects are numbered in the
\* order of their construction, and at most MaxNodes are ever constructed.
NewNode == created + 1

\* The values a node can be constructed on: one some node already wraps, or
\* a new one.
Wrapped == {dataRef[n] : n \in alive} \ {None}
Sharers == {n \in alive : \E k \in alive : k < n /\ dataRef[k] # None /\ dataRef[k] = dataRef[n]}
Explicit == {n \in alive : mode[n] # DEFAULT}
ValueChoices == {NewNode} \cup (IF Cardinality(Sharers) < MaxSharers THEN Wrapped ELSE {})

\* A constructor that registers no weak reference to the value.
RegisteredNever(n, v) == dataRef

\* The _data after `self._data = ref(data, _remove)`.
Registered(n, v) == [dataRef EXCEPT ![n] = v]

\* WeakTreeNode.__init__, to the call of the trunk setter: the weak reference
\* to the value is registered with _remove, and _trunk is None.
InitBegin(op, v, q, m, c) ==
    /\ pc = "idle"
    /\ created < MaxNodes
    /\ v \in ValueChoices
    /\ m # DEFAULT => Cardinality(Explicit) < MaxExplicit
    /\ c
    /\ created' = created + 1
    /\ LET n == NewNode
           F == [NoFrame EXCEPT !.op = op, !.self = n, !.arg = q, !.cm = m]
       IN  /\ Settle(branches, [trunkRef EXCEPT ![n] = None], mode,
                     Registered(n, v), held, F, hookq)
           /\ cbRuns' = [cbRuns EXCEPT ![n] = 0]
           /\ pre' = Snapshot(op, n, q, m, v)
           /\ pc' = "set_discard"
    /\ UNCHANGED <<it, relinks>>

\* WeakTreeNode(data, trunk, cleanup_mode, callback)
Construct(v, q, m, c) ==
    /\ q \in held \cup {None}
    /\ InitBegin("init", v, q, m, c)

\* p.add_branch(data, cleanup_mode, callback)
AddBranch(p, v, m, c) ==
    /\ p \in held
    /\ InitBegin("add", v, p, m, c)

\* The rest of __init__: _branches, _cleanup_mode, and the new node returned.
InitFinish ==
    /\ pc = "init_finish"
    /\ LET n == fr.self
       IN  Settle([branches EXCEPT ![n] = {}], trunkRef,
                  [mode EXCEPT ![n] = fr.cm], dataRef, held \cup {n}, NoFrame, hookq)
    /\ pc' = "done"
    /\ UNCHANGED <<it, created, relinks, cbRuns, pre>>

\* The caller's obligation: no node becomes its own ancestor.
NoCycle(n, q) ==
    \/ q = None
    \/ /\ q # n
       /\ n \notin TrunkChain(q)
       /\ q \notin Descendants(branches, n)

\* n.trunk = q
SetTrunk(n, q) ==
    /\ pc = "idle"
    /\ n \in held
    /\ q \in held \cup {None}
    /\ NoCycle(n, q)
    /\ relinks < MaxRelinks
    /\ relinks' = relinks + 1
    /\ fr' = [NoFrame EXCEPT !.op = "set", !.self = n, !.arg = q]
    /\ pre' = Snapshot("set", n, q, DEFAULT, None)
    /\ pc' = "set_discard"
    /\ UNCHANGED <<it, created, alive, held, trunkRef, branches, mode, cbRuns, dataRef, hookq>>

\* ------------------------------------------------------ the trunk setter
\* The setter's self: the subnode in _reparent's loop, the node otherwise.
SetterSelf == IF fr.op = "expire" THEN fr.sub ELSE fr.self

\* Where the setter returns to.
SetterReturn ==
    CASE fr.op = "expire" -> "reparent_loop"
      [] fr.op \in {"init", "add"} -> "init_finish"
      [] OTHER -> "done"

\* The frame once the setter has returned.
SetterFrame == IF fr.op = "set" THEN NoFrame ELSE fr

\* A setter that leaves the node in its old trunk's _branches.
SetterDiscardedNever(s) == branches

\* The _branches after `if self.trunk: self.trunk._branches.discard(self)`.
SetterDiscarded(s) ==
    LET t == Trunk(s)
    IN  IF t # None THEN [branches EXCEPT ![t] = @ \ {s}] ELSE branches

\* A setter that also makes the node the trunk of its new trunk.
SetterLinkedBoth(s, q) ==
    IF q # None THEN [trunkRef EXCEPT ![s] = q, ![q] = s]
    ELSE [trunkRef EXCEPT ![s] = None]

\* A setter that leaves _trunk as it is.
SetterLinkedNever(s, q) == trunkRef

\* The _trunk after `if node: self._trunk = ref(node) ... else: self._trunk = None`.
SetterLinked(s, q) ==
    IF q # None THEN [trunkRef EXCEPT ![s] = q] ELSE [trunkRef EXCEPT ![s] = None]

\* A setter that does not add the node to its new trunk's _branches.
SetterAddedNever(s, q) == branches

\* The _branches after `node._branches.add(self)`.
SetterAdded(s, q) == [branches EXCEPT ![q] = @ \cup {s}]

\* if self.trunk: self.trunk._branches.discard(self)
SetDiscard ==
    /\ pc = "set_discard"
    /\ Settle(SetterDiscarded(SetterSelf), trunkRef, mode, dataRef, held, fr, hookq)
    /\ pc' = "set_link"
    /\ UNCHANGED <<it, created, relinks, cbRuns, pre>>

\* if node: self._trunk = ref(node) ... else: self._trunk = None
SetLink ==
    /\ pc = "set_link"
    /\ LET s == SetterSelf
           q == fr.arg
       IN  IF q # None
           THEN /\ Settle(branches, SetterLinked(s, q), mode, dataRef, held, fr, hookq)
                /\ pc' = "set_add"
           ELSE /\ Settle(branches, SetterLinked(s, q), mode, dataRef, held,
                          SetterFrame, hookq)
                /\ pc' = SetterReturn
    /\ UNCHANGED <<it, created, relinks, cbRuns, pre>>

\* node._branches.add(self)
SetAdd ==
    /\ pc = "set_add"
    /\ LET s == SetterSelf
           q == fr.arg
       IN  Settle(SetterAdded(s, q), trunkRef, mode, dataRef, held, SetterFrame, hookq)
    /\ pc' = SetterReturn
    /\ UNCHANGED <<it, created, relinks, cbRuns, pre>>

\* ------------------------------------------------------- value expiry
\* The last strong owner of value v lets go of it: its weak references are
\* cleared and their callbacks (_remove, one per node wrapping v) are queued,
\* the most recently registered first.
ExpireValue(v) ==
    /\ pc = "idle"
    /\ Refs(v) # <<>>
    /\ hookq' = Refs(v)
    /\ dataRef' = [n \in Nodes |-> IF dataRef[n] = v THEN None ELSE dataRef[n]]
    /\ pc' = "hook_start"
    /\ UNCHANGED <<it, created, relinks, alive, held, trunkRef, branches, mode, cbRuns, fr, pre>>

\* A selfref that still gives the node once the node is gone.
SelfRefStale(n) == n

\* _remove: `self = selfref()`, the weak reference to the node, called.
SelfRef(n) == Deref(n)

\* _remove: self = selfref(); if callback: callback(wr)
HookCallback ==
    /\ pc = "hook_start"
    /\ LET n == Head(hookq)
           self == SelfRef(n)
       IN  /\ fr' = [NoFrame EXCEPT !.op = "expire", !.self = self]
           /\ cbRuns' = IF CallbackGiven(n) THEN [cbRuns EXCEPT ![n] = @ + 1] ELSE cbRuns
           /\ pre' = Snapshot("expire", n, None, DEFAULT, None)
    /\ pc' = "hook_cleanup"
    /\ UNCHANGED <<it, created, relinks, alive, held, trunkRef, branches, mode, dataRef, hookq>>

\* A dispatch that runs _prune for _idle.
MethodEntryNoIdle(meth) ==
    CASE meth = "_reparent" -> "reparent_discard"
      [] OTHER              -> "prune_discard"

\* Where the cleanup method chosen starts.
MethodEntry(meth) ==
    CASE meth = "_prune"    -> "prune_discard"
      [] meth = "_reparent" -> "reparent_discard"
      [] OTHER              -> "hook_end"

\* _remove: if self: _get_cleanup_method(self, self._cleanup_mode)(self)
HookCleanup ==
    /\ pc = "hook_cleanup"
    /\ IF fr.self # None
       THEN LET meth == GetCleanupMethod(fr.self, mode[fr.self])
            IN  /\ pre' = [pre EXCEPT !.meth = meth]
                /\ pc' = MethodEntry(meth)
       ELSE /\ pre' = pre
            /\ pc' = "hook_end"
    /\ UNCHANGED <<it, created, relinks, alive, held, trunkRef, branches, mode, cbRuns, dataRef, hookq, fr>>

\* A _prune that leaves the node in its trunk's _branches.
PruneDiscardedNever(node) == branches

\* _prune: the _branches after `if node.trunk: node.trunk._branches.discard(node)`.
PruneDiscarded(node) ==
    LET t == Trunk(node)
    IN  IF t # None THEN [branches EXCEPT ![t] = @ \ {node}] ELSE branches

\* A _prune that keeps the node's _branches.
PruneClearedNever(node) == branches

\* _prune: the _branches after `node._branches.clear()`.
PruneCleared(node) == [branches EXCEPT ![node] = {}]

\* A _reparent that leaves the node in its trunk's _branches.
ReparentDiscardedNever(node) == branches

\* _reparent: the _branches after `if node.trunk: node.trunk._branches.discard(node)`.
ReparentDiscarded(node) ==
    LET t == Trunk(node)
    IN  IF t # None THEN [branches EXCEPT ![t] = @ \ {node}] ELSE branches

\* A _reparent that makes every subnode top-level.
ReparentTargetNone(node) == None

\* _reparent: the trunk each subnode is given, `node.trunk`.
ReparentTarget(node) == Trunk(node)

\* _prune, its first statement.
PruneDiscard ==
    /\ pc = "prune_discard"
    /\ Settle(PruneDiscarded(fr.self), trunkRef, mode, dataRef, held, fr, hookq)
    /\ pc' = "prune_clear"
    /\ UNCHANGED <<it, created, relinks, cbRuns, pre>>

\* _prune: node._branches.clear()
PruneClear ==
    /\ pc = "prune_clear"
    /\ Settle(PruneCleared(fr.self), trunkRef, mode, dataRef, held, fr, hookq)
    /\ KeepCallbacks(cbRuns, alive', hookq)
    /\ pc' = "hook_end"
    /\ UNCHANGED <<it, created, relinks, pre>>

\* _reparent, its first statement, and the copy of _branches its loop runs over.
ReparentDiscard ==
    /\ pc = "reparent_discard"
    /\ LET node == fr.self
       IN  Settle(ReparentDiscarded(node), trunkRef, mode, dataRef, held,
                  [fr EXCEPT !.copy = branches[node], !.rest = branches[node]], hookq)
    /\ pc' = "reparent_loop"
    /\ UNCHANGED <<it, created, relinks, cbRuns, pre>>

\* _reparent: for subnode in node._branches.copy(): subnode.trunk = node.trunk
ReparentNext ==
    /\ pc = "reparent_loop"
    /\ fr.rest # {}
    /\ \E subnode \in fr.rest :
         fr' = [fr EXCEPT !.sub = subnode, !.arg = ReparentTarget(fr.self),
                          !.rest = @ \ {subnode}]
    /\ pc' = "set_discard"
    /\ UNCHANGED <<it, created, relinks, alive, held, trunkRef, branches, mode, cbRuns, dataRef, hookq, pre>>

\* _reparent: the loop is over.
ReparentExit ==
    /\ pc = "reparent_loop"
    /\ fr.rest = {}
    /\ pc' = "hook_end"
    /\ UNCHANGED <<it, created, relinks, alive, held, trunkRef, branches, mode, cbRuns, dataRef, hookq, fr, pre>>

\* _remove returns: its local variables are released.
HookEnd ==
    /\ pc = "hook_end"
    /\ Settle(branches, trunkRef, mode, dataRef, held, NoFrame, Tail(hookq))
    /\ KeepCallbacks(cbRuns, alive', Tail(hookq))
    /\ pc' = "done"
    /\ UNCHANGED <<it, created, relinks, pre>>

\* The operation is over: the next pending _remove runs, or control is back
\* with the application.
Return ==
    /\ pc = "done"
    /\ pc' = IF hookq # <<>> THEN "hook_start" ELSE "idle"
    /\ pre' = NoPre
    /\ UNCHANGED <<it, created, relinks, alive, held, trunkRef, branches, mode, cbRuns, dataRef, hookq, fr>>

Next ==
    \/ \E n \in Nodes : Acquire(n)
    \/ \E n \in Nodes : Drop(n)
    \/ \E v \in Vals, q \in Nodes \cup {None}, m \in CleanupMode, c \in {TRUE} :
         Construct(v, q, m, c)
    \/ \E p \in Nodes, v \in Vals, m \in CleanupMode, c \in {TRUE} :
         AddBranch(p, v, m, c)
    \/ InitFinish
    \/ \E n \in Nodes, q \in Nodes \cup {None} : SetTrunk(n, q)
    \/ SetDiscard
    \/ SetLink
    \/ SetAdd
    \/ \E v \in Vals : ExpireValue(v)
    \/ HookCallback
    \/ HookCleanup
    \/ PruneDiscard
    \/ PruneClear
    \/ ReparentDiscard
    \/ ReparentNext
    \/ ReparentExit
    \/ HookEnd
    \/ Return

Spec == Init /\ [][Next]_vars

\* The steps of code that is running: the interpreter goes on with them.
Running ==
    \/ InitFinish
    \/ SetDiscard
    \/ SetLink
    \/ SetAdd
    \/ HookCallback
    \/ HookCleanup
    \/ PruneDiscard
    \/ PruneClear
    \/ ReparentDiscard
    \/ ReparentNext
    \/ ReparentExit
    \/ HookEnd
    \/ Return

\* The program, with code that is running never left unfinished.
FairSpec == Spec /\ WF_vars(Running)

\* ------------------------------------------- a weaker caller obligation
\* The caller's obligation worded over branches alone: a node is not put
\* under itself or under one of its descendants.  A trunk link that a cleanup
\* has left behind is not looked at.
NotUnderDescendant(n, q) ==
    \/ q = None
    \/ /\ q # n
       /\ q \notin Descendants(branches, n)

\* n.trunk = q, by a caller who keeps to that obligation only.
SetTrunkLoose(n, q) ==
    /\ pc = "idle"
    /\ n \in held
    /\ q \in held \cup {None}
    /\ NotUnderDescendant(n, q)
    /\ relinks < MaxRelinks
    /\ relinks' = relinks + 1
    /\ fr' = [NoFrame EXCEPT !.op = "set", !.self = n, !.arg = q]
    /\ pre' = Snapshot("set", n, q, DEFAULT, None)
    /\ pc' = "set_discard"
    /\ UNCHANGED <<it, created, alive, held, trunkRef, branches, mode, cbRuns, dataRef, hookq>>

\* Nodes that are in each other's branches and that nothing else refers to
\* are taken to be collected at once.
LooseNext ==
    \/ \E n \in Nodes : Acquire(n)
    \/ \E n \in Nodes : Drop(n)
    \/ \E v \in Vals, q \in Nodes \cup {None}, m \in CleanupMode, c \in {TRUE} :
         Construct(v, q, m, c)
    \/ \E p \in Nodes, v \in Vals, m \in CleanupMode, c \in {TRUE} :
         AddBranch(p, v, m, c)
    \/ InitFinish
    \/ \E n \in Nodes, q \in Nodes \cup {None} : SetTrunkLoose(n, q)
    \/ SetDiscard
    \/ SetLink
    \/ SetAdd
    \/ \E v \in Vals : ExpireValue(v)
    \/ HookCallback
    \/ HookCleanup
    \/ PruneDiscard
    \/ PruneClear
    \/ ReparentDiscard
    \/ ReparentNext
    \/ ReparentExit
    \/ HookEnd
    \/ Return

LooseSpec == Init /\ [][LooseNext]_vars

\* ============================================================ traversals
\* TreeIterable.breadth and TreeIterable.depth, stepped one loop iteration at
\* a time over a forest that does not change during the pass.  The forests
\* are those add_branch and the constructor build out of MaxTreeNodes nodes:
\* the trunk of a node is a node constructed before it, or None.
MaxTreeNodes == 6

TreeNodes == 1..MaxTreeNodes

Forests == {t \in [TreeNodes -> TreeNodes \cup {None}] : \A n \in TreeNodes : t[n] < n}

\* The branches of every node of the forest with trunks t.
BranchesOf(t) == [p \in TreeNodes |-> {n \in TreeNodes : t[n] = p}]

\* The orders in which iterating over the set S can give its members.
Orders(S) == {q \in [1..Cardinality(S) -> S] : Range(q) = S}

\* The variables of the program, which a traversal leaves alone.
prog == <<created, alive, held, trunkRef, branches, mode, cbRuns, dataRef, relinks, hookq, pc, fr, pre>>

\* A pop that takes the node off the other end.
PopLeftFromRight(q) == [node |-> q[Len(q)], rest |-> SubSeq(q, 1, Len(q) - 1)]

\* queue.popleft(): the node taken off and the queue left.
PopLeft(q) == [node |-> Head(q), rest |-> Tail(q)]

\* A pop that takes the node off the other end.
PopFromLeft(q) == [node |-> Head(q), rest |-> Tail(q)]

\* stack.pop(): the node taken off and the stack left.
Pop(q) == [node |-> q[Len(q)], rest |-> SubSeq(q, 1, Len(q) - 1)]

\* An extend that adds nothing.
ExtendedNever(q, kids) == q

\* queue.extend(node.branches), stack.extend(node.branches), with the
\* branches in the order kids.
Extended(q, kids) == q \o kids

\* No node has been constructed, and some forest stands.
TreeInit ==
    /\ created = 0
    /\ alive = {}
    /\ held = {}
    /\ trunkRef = [n \in Nodes |-> None]
    /\ branches = [n \in Nodes |-> {}]
    /\ mode = [n \in Nodes |-> DEFAULT]
    /\ cbRuns = [n \in Nodes |-> 0]
    /\ dataRef = [n \in Nodes |-> None]
    /\ relinks = 0
    /\ hookq = <<>>
    /\ pc = "idle"
    /\ fr = NoFrame
    /\ pre = NoPre
    /\ \E t \in Forests : it = [NoIt EXCEPT !.tree = BranchesOf(t)]

\* queue = deque([self._trunk_node])
BreadthStart(s) ==
    /\ it.kind = "none"
    /\ it' = [it EXCEPT !.kind = "breadth", !.start = s, !.pending = <<s>>]
    /\ UNCHANGED prog

\* stack = [self._trunk_node]
DepthStart(s) ==
    /\ it.kind = "none"
    /\ it' = [it EXCEPT !.kind = "depth", !.start = s, !.pending = <<s>>]
    /\ UNCHANGED prog

\* while queue: node = queue.popleft(); yield node; queue.extend(node.branches)
BreadthStep ==
    /\ it.kind = "breadth"
    /\ it.pending # <<>>
    /\ LET p == PopLeft(it.pending)
       IN  \E kids \in Orders(it.tree[p.node]) :
             it' = [it EXCEPT !.out = Append(@, p.node),
                              !.pending = Extended(p.rest, kids)]
    /\ UNCHANGED prog

\* while stack: node = stack.pop(); yield node; stack.extend(node.branches)
DepthStep ==
    /\ it.kind = "depth"
    /\ it.pending # <<>>
    /\ LET p == Pop(it.pending)
       IN  \E kids \in Orders(it.tree[p.node]) :
             it' = [it EXCEPT !.out = Append(@, p.node),
                              !.pending = Extended(p.rest, kids)]
    /\ UNCHANGED prog

TreeNext ==
    \/ \E s \in TreeNodes : BreadthStart(s)
    \/ \E s \in TreeNodes : DepthStart(s)
    \/ BreadthStep
    \/ DepthStep

\* The loop that consumes the generator runs on until the generator is
\* exhausted.
TreeSpec == TreeInit /\ [][TreeNext]_vars /\ WF_vars(TreeNext)

\* ======================================================== the claims
\* The operation that has just returned.
Done(op) == pc = "done" /\ pre.op = op

\* Control is with the application: no operation is under way.
Quiet == pc = "idle"

\* The nodes in whose _branches node n is.
ParentsOf(n) == {x \in alive : n \in branches[x]}

\* ---- C1
\* C1 as stated: whenever no operation is under way, for all live nodes n
\* and p, n is in p.branches if and only if n.trunk is p.
C1_Consistency ==
    Quiet => \A n \in alive, p \in alive : (n \in branches[p]) <=> (Trunk(n) = p)

\* C1, amended: whenever no operation is under way, for all live nodes n
\* and p, n in p.branches implies n.trunk is p; and n.trunk is p implies n in
\* p.branches unless the value of n or the value of p has expired (a cleanup
\* takes a node out of _branches and leaves the trunk links as they are).
C1_ConsistencyUnlessExpired ==
    Quiet => \A n \in alive, p \in alive :
        /\ n \in branches[p] => Trunk(n) = p
        /\ (Trunk(n) = p /\ Data(n) # None /\ Data(p) # None) => n \in branches[p]

\* A node whose value lives is linked under a parent whose value lives, after
\* a relink and a cleanup elsewhere.
C1_Witness ==
    /\ pc = "idle"
    /\ relinks > 0
    /\ \E x \in alive : Data(x) = None
    /\ \E n \in alive, p \in alive :
         n \in branches[p] /\ Trunk(n) = p /\ Data(n) # None /\ Data(p) # None

\* ---- the expiry that has just been handled
\* The ancestors of n in the state the operation started from: its trunk,
\* the trunk of its trunk, and so on.
RECURSIVE PreAncestors(_, _)
PreAncestors(n, k) ==
    IF k = 0 \/ pre.trunk[n] = None THEN <<>>
    ELSE <<pre.trunk[n]>> \o PreAncestors(pre.trunk[n], k - 1)

\* The effective cleanup mode of n in that state: its own mode, or for a
\* DEFAULT node the mode of its nearest ancestor that is not DEFAULT, or PRUNE
\* when there is none.
PreEffective(n) ==
    LET chain == <<n>> \o PreAncestors(n, MaxNodes)
        explicit == {i \in 1..Len(chain) : pre.mode[chain[i]] # DEFAULT}
    IN  IF explicit = {} THEN PRUNE
        ELSE pre.mode[chain[CHOOSE i \in explicit : \A j \in explicit : i <= j]]

\* The hook of a node that existed has just returned, and the node's effective
\* cleanup mode at its value's expiry was m.
Expired(m) ==
    /\ Done("expire")
    /\ pre.node \in pre.alive
    /\ PreEffective(pre.node) = m

\* The descendants of n when the operation started.
PreDescendants(n) == Descendants(pre.branches, n)

\* ---- C2
\* C2 as stated: after the expiry of the value of a Reparent node n, every
\* node that was a descendant of n is alive.
C2_AllDescendantsSurvive ==
    Expired(REPARENT) => PreDescendants(pre.node) \subseteq alive

\* C2, amended: after the expiry of the value of a Reparent node n, no node
\* other than n and its descendants is gone and n is in no _branches; when n
\* had a parent p, every descendant of n is alive, now a descendant of p; when
\* n had none, the descendants alive are those an external handle keeps alive,
\* directly or through the _branches of a held descendant.
C2_DescendantsSurviveUnderParent ==
    Expired(REPARENT) =>
        LET n == pre.node
            p == pre.trunk[n]
            D == PreDescendants(n)
        IN  /\ pre.alive \ (D \cup {n}) \subseteq alive
            /\ ParentsOf(n) = {}
            /\ p # None => D \subseteq alive /\ D \subseteq Descendants(branches, p)
            /\ p = None => D \cap alive = Closure(pre.branches, held \cap D)

\* A Reparent node with a parent, a child nobody holds and no handle of its
\* own has been excised: the child lives on under the parent.
C2_Witness ==
    /\ Expired(REPARENT)
    /\ pre.trunk[pre.node] # None
    /\ pre.node \notin alive
    /\ \E c \in pre.branches[pre.node] : c \notin held /\ c \in alive

\* ---- C3
\* C3 as stated: after the expiry of the value of a Reparent node n with
\* former parent p, n is not in p.branches, n.branches is empty, and every
\* former child c of n has c.trunk = p, is in p.branches if p is present, and
\* has the children it had.
C3_Reparent ==
    Expired(REPARENT) =>
        LET n == pre.node
            p == pre.trunk[n]
        IN  /\ p # None => n \notin branches[p]
            /\ branches[n] = {}
            /\ \A c \in pre.branches[n] :
                 /\ Trunk(c) = p
                 /\ p # None => c \in branches[p]
                 /\ branches[c] = pre.branches[c]

\* C3, amended: the same of every former child that is still alive, and all
\* the former children are alive when p is present.
C3_ReparentOfSurvivors ==
    Expired(REPARENT) =>
        LET n == pre.node
            p == pre.trunk[n]
        IN  /\ p # None => n \notin branches[p]
            /\ branches[n] = {}
            /\ p # None => pre.branches[n] \subseteq alive
            /\ \A c \in pre.branches[n] \cap alive :
                 /\ Trunk(c) = p
                 /\ p # None => c \in branches[p]
                 /\ branches[c] = pre.branches[c]

\* A Reparent node under a parent has been excised and its child is now the
\* parent's child.
C3_Witness ==
    /\ Expired(REPARENT)
    /\ pre.trunk[pre.node] # None
    /\ pre.node \in pre.branches[pre.trunk[pre.node]]
    /\ \E c \in pre.branches[pre.node] :
         /\ c \in branches[pre.trunk[pre.node]]
         /\ Trunk(c) = pre.trunk[pre.node]

\* ---- C4
\* C4: after the expiry of the value of a Prune node n, n is not in its
\* former parent's branches, n.branches is empty, the former descendants of n
\* still alive are exactly those an external handle keeps alive (directly or
\* through the _branches of a held descendant), and every held former child of
\* n is alive and in no node's branches.
C4_Prune ==
    Expired(PRUNE) =>
        LET n == pre.node
            p == pre.trunk[n]
            D == PreDescendants(n)
        IN  /\ p # None => n \notin branches[p]
            /\ branches[n] = {}
            /\ D \cap alive = Closure(pre.branches, held \cap D)
            /\ \A c \in pre.branches[n] \cap held : c \in alive /\ ParentsOf(c) = {}

\* A Prune node had a held child and a child nobody held: the first lives on
\* detached, the second is gone.
C4_Witness ==
    /\ Expired(PRUNE)
    /\ \E c \in pre.branches[pre.node] : c \in held /\ c \in alive
    /\ \E d \in pre.branches[pre.node] : d \notin alive

\* ---- C5
\* C5: after the expiry of the value of a NO_CLEANUP (Idle) node n, no trunk
\* link and no branches set has changed, no node is gone, and n.data is None;
\* and the data of a node, once None, stays None.
C5_Idle ==
    /\ [](Expired(NO_CLEANUP) =>
            /\ branches = pre.branches
            /\ \A x \in Nodes : Trunk(x) = pre.trunk[x]
            /\ alive = pre.alive
            /\ Data(pre.node) = None)
    /\ [][\A n \in alive \cap alive' : Data(n) = None => Data(n)' = None]_vars

\* An Idle node with a parent and a child has lost its value and kept both.
C5_Witness ==
    /\ Expired(NO_CLEANUP)
    /\ pre.trunk[pre.node] # None
    /\ pre.node \in branches[pre.trunk[pre.node]]
    /\ \E c \in branches[pre.node] : Trunk(c) = pre.node
    /\ Data(pre.node) = None

\* ---- C6
\* The cleanup function of a cleanup mode.
StrategyOf(m) ==
    CASE m = PRUNE      -> "_prune"
      [] m = REPARENT   -> "_reparent"
      [] m = NO_CLEANUP -> "_idle"

\* C6: the cleanup function run at the expiry of the value of node n is that
\* of n's own mode when the mode is PRUNE, REPARENT or NO_CLEANUP, and for a
\* DEFAULT node that of the mode of its nearest ancestor that is not DEFAULT,
\* on the trunk chain as it is at the expiry; it is _prune when every node of
\* the chain is DEFAULT.
C6_Resolution ==
    (pre.op = "expire" /\ pre.meth # "none") =>
        pre.meth = StrategyOf(PreEffective(pre.node))

\* The chain DEFAULT -> DEFAULT -> REPARENT has resolved to _reparent for the
\* deepest node.
C6_Witness ==
    /\ pre.op = "expire"
    /\ pre.meth = "_reparent"
    /\ LET n == pre.node
       IN  /\ pre.mode[n] = DEFAULT
           /\ pre.trunk[n] # None
           /\ pre.mode[pre.trunk[n]] = DEFAULT
           /\ pre.trunk[pre.trunk[n]] # None
           /\ pre.mode[pre.trunk[pre.trunk[n]]] = REPARENT

Relinked(n, p, q) ==
    /\ (p # None /\ q # p) => n \notin branches[p]
    /\ Trunk(n) = q
    /\ q # None => n \in branches[q]
    /\ q = None => ParentsOf(n) = {}
    /\ \A x \in Nodes \ {n} : Trunk(x) = pre.trunk[x]
    /\ \A x \in Nodes \ {p, q} : branches[x] = pre.branches[x]
    /\ alive = pre.alive

\* The links are what they were when the operation started.
SameLinks ==
    /\ branches = pre.branches
    /\ \A x \in Nodes : Trunk(x) = pre.trunk[x]

\* C8 as stated: after n.trunk = q, with p the parent n had, n is not in
\* p.branches (unless q is p), n.trunk is q, n is in q.branches when q is
\* present and in no branches when q is absent, and nothing else has changed;
\* when q is p the links are what they were.
C8_Relink ==
    Done("set") =>
        LET n == pre.node
            p == pre.trunk[n]
            q == pre.arg
        IN  /\ Relinked(n, p, q)
            /\ q = p => SameLinks

\* C8, amended: the same, but with q = p the links are what they were only
\* when n was in p.branches (or p is absent); a node whose trunk link
\* designates p while it is not in p.branches (after a Prune or Reparent) is
\* put back into p.branches.
C8_RelinkConsistent ==
    Done("set") =>
        LET n == pre.node
            p == pre.trunk[n]
            q == pre.arg
        IN  /\ Relinked(n, p, q)
            /\ (q = p /\ (p = None \/ n \in pre.branches[p])) => SameLinks
            /\ (q = p /\ p # None /\ n \notin pre.branches[p]) =>
                  branches[p] = pre.branches[p] \cup {n}

\* A node has been moved from one parent to another.
C8_Witness ==
    /\ Done("set")
    /\ LET n == pre.node
           p == pre.trunk[n]
           q == pre.arg
       IN  /\ p # None /\ q # None /\ q # p
           /\ n \in pre.branches[p]
           /\ n \in branches[q]

\* ---- C9
\* The trunk setter is running.
InSetter == pc \in {"set_discard", "set_link", "set_add"}

\* The trunk setter has just returned, for node s.
SetterReturned(s) ==
    \/ Done("set") /\ s = pre.node
    \/ pc = "init_finish" /\ s = fr.self
    \/ pc = "reparent_loop" /\ s = fr.sub

\* C9 as stated: in every state of the trunk setter, the node being relinked
\* is in the branches of the node its trunk designates whenever its trunk is
\* present.
C9_ConsistentThroughout ==
    InSetter =>
        LET s == SetterSelf
        IN  Trunk(s) # None => s \in branches[Trunk(s)]

\* C9, amended: in every state of the trunk setter the node being relinked is
\* in no branches but those of the node its trunk designates, and when the
\* setter has returned it is in the branches of the node its trunk designates
\* whenever its trunk is present.
C9_ConsistentAtReturn ==
    /\ InSetter => \A x \in ParentsOf(SetterSelf) : Trunk(SetterSelf) = x
    /\ \A s \in Nodes : SetterReturned(s) =>
          /\ \A x \in ParentsOf(s) : Trunk(s) = x
          /\ (s \in alive /\ Trunk(s) # None) => s \in branches[Trunk(s)]

\* The application's relink has discarded the node from its old parent's
\* branches and not yet moved on: its trunk still designates the old parent.
C9_Witness ==
    /\ pc = "set_link"
    /\ fr.op = "set"
    /\ Trunk(fr.self) # None
    /\ fr.arg # None
    /\ fr.self \in pre.branches[Trunk(fr.self)]
    /\ fr.self \notin branches[Trunk(fr.self)]

\* ---- C10
\* C10: after p.add_branch(value, mode, callback), and after
\* WeakTreeNode(value, p, mode, callback) alike, there is exactly one new node
\* c, held by the caller, with c.trunk = p, c in p.branches (in no branches
\* when p is absent), c.branches empty, c's cleanup mode = mode and c's hook
\* registered on the value; nothing else has changed.
C10_AddBranch ==
    (Done("add") \/ Done("init")) =>
        LET c == pre.node
            p == pre.arg
        IN  /\ c \notin pre.alive
            /\ alive = pre.alive \cup {c}
            /\ held = pre.held \cup {c}
            /\ Trunk(c) = p
            /\ ParentsOf(c) = (IF p = None THEN {} ELSE {p})
            /\ branches[c] = {}
            /\ mode[c] = pre.cm
            /\ Data(c) = pre.data
            /\ c \in Range(Refs(pre.data))
            /\ cbRuns[c] = 0
            /\ Done("add") => p # None
            /\ \A x \in pre.alive :
                 /\ Trunk(x) = pre.trunk[x]
                 /\ branches[x] = pre.branches[x] \cup (IF x = p THEN {c} ELSE {})
                 /\ mode[x] = pre.mode[x]

\* add_branch has given a node that had a child a second one, with a cleanup
\* mode of its own.
C10_Witness ==
    /\ Done("add")
    /\ pre.cm # DEFAULT
    /\ pre.branches[pre.arg] # {}
    /\ pre.node \in branches[pre.arg]
    /\ mode[pre.node] = pre.cm

\* ---- C11
\* The pass has started.
Started == it.kind # "none"

\* The loop has ended: nothing is pending.
Finished == Started /\ it.pending = <<>>

\* The nodes reachable from s through branches in the forest, s included.
Subtree(s) == Closure(it.tree, {s})

\* No node is in the sequence twice.
NoDuplicates(q) == \A i, j \in 1..Len(q) : q[i] = q[j] => i = j

\* C11: a pass of breadth() or depth() from node s over a finite forest that
\* does not change emits nodes of the subtree of s only and none twice, it
\* ends, and when it has ended it has emitted every node of the subtree of s,
\* whatever the orders in which the branches sets were iterated.
C11_EachNodeOnce ==
    /\ [](Started => /\ NoDuplicates(it.out)
                     /\ Range(it.out) \subseteq Subtree(it.start)
                     /\ Finished => Range(it.out) = Subtree(it.start))
    /\ (Started ~> Finished)

\* A depth-first pass from the root of a tree of MaxTreeNodes nodes, in which
\* a node with two children has a grandchild, has ended.
C11_Witness ==
    /\ Finished
    /\ it.kind = "depth"
    /\ Len(it.out) = MaxTreeNodes
    /\ \E a \in TreeNodes : Cardinality(it.tree[a]) >= 2
                            /\ \E b \in it.tree[a] : it.tree[b] # {}

\* ---- C12
\* The node in whose branches n is, in the forest.
ParentIn(n) == CHOOSE p \in TreeNodes : n \in it.tree[p]

\* The number of branches edges from the starting node down to n.
RECURSIVE Dist(_)
Dist(n) == IF n = it.start THEN 0 ELSE 1 + Dist(ParentIn(n))

\* The position of x in the sequence q.
Index(q, x) == CHOOSE i \in 1..Len(q) : q[i] = x

\* C12: at every point of a breadth() pass, whatever the orders in which the
\* branches sets were iterated, the nodes emitted so far are in level order
\* (no node is emitted before a node nearer to the starting node), every node
\* other than the starting node was emitted after its parent, and of two such
\* nodes the one emitted first has the parent that was emitted first (or the
\* same parent).
C12_LevelOrder ==
    it.kind = "breadth" =>
        LET out == it.out
            I == 1..Len(out)
        IN  /\ \A i, j \in I : i < j => Dist(out[i]) <= Dist(out[j])
            /\ \A j \in I : out[j] # it.start =>
                 \E i \in 1..(j - 1) : out[i] = ParentIn(out[j])
            /\ \A i, j \in I :
                 (i < j /\ out[i] # it.start /\ out[j] # it.start) =>
                    Index(out, ParentIn(out[i])) <= Index(out, ParentIn(out[j]))

\* A breadth-first pass has ended on a tree with three levels, in which two
\* nodes of the second level have children.
C12_Witness ==
    /\ Finished
    /\ it.kind = "breadth"
    /\ \E a, b \in it.tree[it.start] :
         /\ a # b
         /\ it.tree[a] # {}
         /\ it.tree[b] # {}
         /\ Index(it.out, a) < Index(it.out, b)
         /\ \A c \in it.tree[a], d \in it.tree[b] : Index(it.out, c) < Index(it.out, d)

\* ---- C13
\* n and the nodes above it up to the starting node.
RECURSIVE PathTo(_)
PathTo(n) == IF n = it.start THEN {n} ELSE {n} \cup PathTo(ParentIn(n))

\* C13: at every point of a depth() pass, whatever the orders in which the
\* branches sets were iterated, every node emitted after the starting node has
\* its parent on the path from the starting node to the node emitted just
\* before it, and the nodes of the subtree of an emitted node that have been
\* emitted follow it without a node from outside the subtree in between.
C13_DepthFirst ==
    it.kind = "depth" =>
        LET out == it.out
            I == 1..Len(out)
        IN  /\ \A j \in I : j > 1 => ParentIn(out[j]) \in PathTo(out[j - 1])
            /\ \A i, j, k \in I :
                 (i < j /\ j < k /\ out[k] \in Subtree(out[i])) =>
                    out[j] \in Subtree(out[i])

\* A depth-first pass has ended in which a whole subtree of two levels was
\* emitted before a sibling of its root.
C13_Witness ==
    /\ Finished
    /\ it.kind = "depth"
    /\ \E b, c \in it.tree[it.start] :
         /\ b # c
         /\ it.tree[b] # {}
         /\ Index(it.out, b) < Index(it.out, c)
         /\ \A d \in it.tree[b] : Index(it.out, d) < Index(it.out, c)

\* ---- C14
\* A pass that emits the starting node and stops.
TowardsRootRunOnce(node, fuel) == [out |-> <<node>>, ended |-> TRUE]

\* TreeIterable.towards_root from node: `while node: yield node; node =
\* node.trunk`.  out: the nodes emitted; ended: whether the loop ended within
\* fuel iterations.
RECURSIVE TowardsRootRun(_, _)
TowardsRootRun(node, fuel) ==
    IF node = None THEN [out |-> <<>>, ended |-> TRUE]
    ELSE IF fuel = 0 THEN [out |-> <<>>, ended |-> FALSE]
    ELSE LET r == TowardsRootRun(Trunk(node), fuel - 1)
         IN  [out |-> <<node>> \o r.out, ended |-> r.ended]

\* towards_root() from n.  A loop that has not ended after as many iterations
\* as there are nodes is on a cycle of trunk links and never ends.
TowardsRoot(n) == TowardsRootRun(n, MaxNodes)

\* The number of branches memberships between n and the top-level node of the
\* tree n is in.
RECURSIVE DepthOf(_)
DepthOf(n) ==
    IF ParentsOf(n) = {} THEN 0
    ELSE 1 + DepthOf(CHOOSE p \in ParentsOf(n) : TRUE)

\* C14 as stated: whenever no operation is under way, towards_root() from any
\* live node n ends and emits depth(n)+1 nodes: n first, then each successive
\* trunk, the last one a node with no trunk that is in no branches.
C14_DepthPlusOne ==
    Quiet => \A n \in alive :
        LET w == TowardsRoot(n)
        IN  /\ w.ended
            /\ Len(w.out) = DepthOf(n) + 1
            /\ w.out[1] = n
            /\ \A i \in 1..(Len(w.out) - 1) : w.out[i + 1] = Trunk(w.out[i])
            /\ Trunk(w.out[Len(w.out)]) = None
            /\ ParentsOf(w.out[Len(w.out)]) = {}

\* C14, amended: in every state, towards_root() from any live node n ends and
\* emits n first, then the node each successive trunk link designates, none
\* twice, the last one a node with no trunk that is in no branches; it emits
\* at least depth(n)+1 nodes, and exactly depth(n)+1 if and only if every
\* node it emits but the last is in the branches of the next (no trunk link
\* on the walk is one a cleanup has left behind).
C14_TrunkWalk ==
    \A n \in alive :
        LET w == TowardsRoot(n)
            last == Len(w.out)
        IN  /\ w.ended
            /\ w.out[1] = n
            /\ NoDuplicates(w.out)
            /\ \A i \in 1..(last - 1) : w.out[i + 1] = Trunk(w.out[i])
            /\ Trunk(w.out[last]) = None
            /\ Quiet => ParentsOf(w.out[last]) = {}
            /\ last >= DepthOf(n) + 1
            /\ (last = DepthOf(n) + 1) <=>
                  \A i \in 1..(last - 1) : w.out[i] \in branches[w.out[i + 1]]

\* A node under a parent that a Prune of the grandparent has detached: the
\* walk from the node goes on through the grandparent, two links for a depth
\* of one.
C14_Witness ==
    /\ Quiet
    /\ \E n \in alive :
         /\ DepthOf(n) = 1
         /\ Len(TowardsRoot(n).out) = 3
         /\ TowardsRoot(n).ended

\* ---- C15
\* The hook of a node that no longer existed when the hook started is running
\* or has just returned.
HookOfDeadNode == pre.op = "expire" /\ pre.node \notin pre.alive

\* C15 as stated: in the hook of a node that is gone no cleanup function is
\* chosen, no trunk link, no branches set and no node's existence changes, and
\* the callback registered on the node is not run.
C15_NoOp ==
    HookOfDeadNode =>
        /\ pre.meth = "none"
        /\ branches = pre.branches
        /\ \A x \in Nodes : Trunk(x) = pre.trunk[x]
        /\ alive = pre.alive
        /\ cbRuns[pre.node] = 0

\* C15, amended: in the hook of a node that is gone no cleanup function is
\* chosen and no trunk link, no branches set and no node's existence changes;
\* the callback registered on the node has run once.
C15_OnlyCallback ==
    HookOfDeadNode =>
        /\ pre.meth = "none"
        /\ branches = pre.branches
        /\ \A x \in Nodes : Trunk(x) = pre.trunk[x]
        /\ alive = pre.alive
        /\ pc \in {"hook_cleanup", "hook_end"} => cbRuns[pre.node] = 1

\* Two nodes wrapped the value that expired; the cleanup of the one
\* constructed last destroyed the other, whose hook has now run to its end.
C15_Witness ==
    /\ HookOfDeadNode
    /\ pc = "hook_end"
    /\ cbRuns[pre.node] = 1
    /\ pre.alive # {}

\* ---- C16
\* The cleanup functions.
CleanupMethods == {"_prune", "_reparent", "_idle"}

\* The expired node was in no branches when its hook started: it had no
\* trunk, its trunk was gone, or it was not in its trunk's branches.
PreDetached(n) == pre.trunk[n] = None \/ n \notin pre.branches[pre.trunk[n]]

RECURSIVE Passes(_, _, _)
Passes(kind, pending, fuel) ==
    IF pending = <<>> THEN {[out |-> <<>>, ended |-> TRUE]}
    ELSE IF fuel = 0 THEN {[out |-> <<>>, ended |-> FALSE]}
    ELSE LET p == IF kind = "breadth" THEN PopLeft(pending) ELSE Pop(pending)
         IN  UNION {{[out |-> <<p.node>> \o r.out, ended |-> r.ended] :
                        r \in Passes(kind, Extended(p.rest, kids), fuel - 1)} :
                    kids \in Orders(Branches(p.node))}

\* breadth() and depth() from s.  A pass that has not ended after as many
\* iterations as there are nodes is on a cycle of branches and never ends.
Breadth(s) == Passes("breadth", <<s>>, MaxNodes)
Depth(s) == Passes("depth", <<s>>, MaxNodes)

\* The nodes some breadth() or depth() pass from s emits.
Emitted(s) == UNION {Range(r.out) : r \in Breadth(s) \cup Depth(s)}

\* C17: after Prune of n, n.branches is empty and the trunk link of every
\* former child of n that is alive still designates n (and reads as n when n
\* is alive); after Prune or Reparent of n, n being alive and having had
\* parent p, n.trunk is still p and n is not in p.branches, towards_root()
\* from n emits n and then what towards_root() from p emits, and no breadth()
\* or depth() pass from a node of that walk emits n.
C17_LinksKept ==
    /\ Expired(PRUNE) =>
          LET n == pre.node
          IN  /\ branches[n] = {}
              /\ \A c \in pre.branches[n] \cap alive :
                   /\ trunkRef[c] = (IF n \in alive THEN n ELSE DeadRef)
                   /\ n \in alive => Trunk(c) = n
    /\ ((Expired(PRUNE) \/ Expired(REPARENT))
          /\ pre.node \in alive /\ pre.trunk[pre.node] # None) =>
          LET n == pre.node
              p == pre.trunk[n]
          IN  /\ Trunk(n) = p
              /\ n \notin branches[p]
              /\ TowardsRoot(n).out = <<n>> \o TowardsRoot(p).out
              /\ \A a \in Range(TowardsRoot(p).out) : n \notin Emitted(a)

\* A Prune node with a parent and a child, all held, has lost its value: the
\* child's trunk is the node, and the walk from the node emits the node and
\* the parent.
C17_Witness ==
    /\ Expired(PRUNE)
    /\ pre.node \in alive
    /\ pre.trunk[pre.node] # None
    /\ pre.node \in pre.branches[pre.trunk[pre.node]]
    /\ \E c \in pre.branches[pre.node] : c \in alive /\ Trunk(c) = pre.node
    /\ Len(TowardsRoot(pre.node).out) = 2

\* ---- C18
\* C18: in every state, the intermediate states of the trunk setter, of
\* __init__ and of _prune and _reparent included, a node that is in the
\* branches of node p has p as its trunk, and no node is in the branches of
\* two nodes.
C18_BranchesImplyTrunk ==
    \A n \in Nodes :
        /\ \A p \in ParentsOf(n) : Trunk(n) = p
        /\ Cardinality(ParentsOf(n)) <= 1

\* _prune has taken the node out of its trunk's branches and not yet cleared
\* the node's own: the node's children are in its branches, the node is in
\* none.
C18_Witness ==
    /\ pc = "prune_clear"
    /\ Trunk(fr.self) # None
    /\ fr.self \in pre.branches[Trunk(fr.self)]
    /\ ParentsOf(fr.self) = {}
    /\ \E c \in branches[fr.self] : Trunk(c) = fr.self

\* ---- C19
\* No node is its own descendant.
BranchesAcyclic == \A n \in alive : n \notin Descendants(branches, n)

\* No walk along the trunk links comes back to a node it has left.
TrunkAcyclic == \A n \in alive : TowardsRoot(n).ended

\* Every breadth() and depth() pass ends.
PassesEnd == \A s \in alive : \A r \in Breadth(s) \cup Depth(s) : r.ended

\* C19 as stated: as long as no caller assigns n.trunk to n or to one of n's
\* descendants, no node is its own descendant, and between operations every
\* breadth() and depth() pass ends.
C19_Acyclic ==
    /\ BranchesAcyclic
    /\ Quiet => PassesEnd

\* C19, amended: as long as the trunk links form no cycle, no node is its own
\* descendant and every breadth() and depth() pass ends; and the only step
\* that closes a cycle of trunk links is a caller's assignment n.trunk = q
\* with n on the walk along the trunk links from q (q is n, a descendant of
\* n, or a node from which trunk links, stale ones included, lead to n).
C19_AcyclicWhileTrunksAcyclic ==
    /\ [](TrunkAcyclic => BranchesAcyclic /\ PassesEnd)
    /\ [][(TrunkAcyclic /\ ~TrunkAcyclic') =>
            /\ pc = "set_link"
            /\ fr.op = "set"
            /\ fr.self \in TrunkChain(fr.arg)]_vars

\* After a Prune of a node, a caller has put a node whose value lives into
\* the branches of the pruned node: the trunk links form no cycle.
C19_Witness ==
    /\ Quiet
    /\ TrunkAcyclic
    /\ relinks > 0
    /\ \E n \in alive, p \in alive :
         n \in branches[p] /\ Data(p) = None /\ Data(n) # None

====
